---------------------------- MODULE Spec2Model ----------------------------
(***************************************************************************)
(* A model of oinky, a static site generator: the content.json query DSL   *)
(* (sort / order / limit / group), the memoized derivations, the change    *)
(* classifier, the throttled watcher entry point and the chunked rebuild   *)
(* waves.                                                                  *)
(*                                                                         *)
(* Strings are sequences of one-character strings, so that the string      *)
(* operations of the source (contains, replace, split, ends_with, cmp)     *)
(* are computed character by character.  Option<T> is a sequence of length *)
(* at most one.                                                            *)
(***************************************************************************)
EXTENDS Integers, Sequences, FiniteSets, TLC

VARIABLES
    \* ---- DSL pipeline (compose_content_from_dsl, one manifest entry)
    dsl,                    \* the ContentDSLItem being composed
    input,                  \* the files of dsl.from, as parse_content_files reads them
    readable,               \* whether File::open succeeds on those files
    parsed_content_files,   \* the local Vec the pipeline mutates in place
    flat,                   \* what dsl_sort_order_limit returned
    content,                \* the TemplateContentDSLItem stored under dsl.name
    dpc,                    \* position in the pipeline
    \* ---- the watcher (watch, potentially_compile behind #[throttle])
    now,                    \* Instant::now(), in ticks
    call_times,             \* the throttle's deque of admitted call instants
    events,                 \* the calls the watcher made: [at, path]
    reactions,              \* the executions of the body: [at, path, call, ops]
    \* ---- the memoized derivations (#[cached]) and what a reaction renders
    clock,                  \* seconds since the process started
    fs,                     \* the version of each input file on disk
    cache,                  \* the entry of each #[cached] function
    last_call,              \* the last direct call of a memoized function
    rendered,               \* what the last reaction rendered its output from
    \* ---- the rebuild waves (compile, potentially_compile and their workers)
    files,                   \* how many content files, page templates and assets
    react,                  \* the calls of the reaction that is running
    opi,                    \* the index in react of the call being made
    spc,                    \* the position of the calling thread in that call
    threads,                \* the THREADS counter of each wave function
    workers,                \* the threads each wave function spawned last
    returned,               \* whether the last call of each wave function returned
    deleted,                \* assets delete_assets has handled in this reaction
    copied,                 \* assets copy_assets has copied in its current call
    exited,                 \* std::process::exit was called
    \* ---- one call of a function of utils.rs or dsl.rs
    fn_call,                \* the function and its arguments
    fn_ret,                 \* None before the call, Some(outcome) after it
    \* ---- one call of compile_content_items, item by item
    item_list,              \* the content_items list, each item named by its place
    no_layout,              \* the items whose meta has no "layout"
    THREADS,                \* the static counter of the function
    chunk_workers,          \* the spawned threads: [x, done, wrote, status]
    cpc,                    \* the position of the calling thread
    halted                  \* err_out ended the process

dslVars == <<dsl, input, readable, parsed_content_files, flat, content, dpc>>

watchVars == <<now, call_times, events, reactions>>

cacheVars == <<clock, fs, cache, last_call, rendered>>

waveVars == <<files, react, opi, spc, threads, workers, returned, deleted, copied, exited>>

fnVars == <<fn_call, fn_ret>>

itemVars == <<item_list, no_layout, THREADS, chunk_workers, cpc, halted>>

vars == <<dslVars, watchVars, cacheVars, waveVars, fnVars, itemVars>>

---------------------------------------------------------------------------
(* Bounds of the model *)

MaxItems == 3

MaxLimit == 2

MaxGroupLimit == 1

\* The watcher: clock resolution, horizon and number of filesystem events
TicksPerSecond == 2

MaxTime == 4

MaxEvents == 3

\* The memoized derivations: horizon in seconds and number of file edits
MaxClock == 3

MaxEdits == 2

\* The waves: a site has up to FewFiles files of a kind, or one chunk and
\* FewFiles more; and up to MaxAssets assets
FewFiles == 1

MaxAssets == 1

\* The single calls: the length of the list handed to sort_content_items
MaxSortItems == 3

---------------------------------------------------------------------------
(* Option<T> *)

None == <<>>

Some(x) == <<x>>

IsSome(o) == Len(o) = 1

Unwrap(o) == o[1]

UnwrapOr(o, d) == IF IsSome(o) THEN o[1] ELSE d

Min2(a, b) == IF a < b THEN a ELSE b

---------------------------------------------------------------------------
(* Strings: std::string::String as a sequence of characters *)

\* The characters that occur, in ASCII (byte) order
Chars ==
    << "-", ".", "/", "0", "1", "2", "3", "6", "_",
       "a", "b", "c", "d", "e", "f", "g", "h", "i", "j", "k", "l", "m", "n", "o", "p",
       "r", "s", "t", "u", "w", "x", "y", "|" >>

Ord(c) == CHOOSE i \in 1..Len(Chars) : Chars[i] = c

\* Ord::cmp on String: bytewise lexicographic; -1 Less, 0 Equal, 1 Greater
StrCmp(a, b) ==
    LET n == Min2(Len(a), Len(b))
        d == {i \in 1..n : a[i] # b[i]}
    IN  IF d = {}
        THEN (IF Len(a) < Len(b) THEN -1 ELSE IF Len(a) > Len(b) THEN 1 ELSE 0)
        ELSE LET i == CHOOSE j \in d : \A k \in d : j <= k
             IN  IF Ord(a[i]) < Ord(b[i]) THEN -1 ELSE 1

\* Ord::cmp on Option<&String>: None is less than every Some
OptCmp(a, b) ==
    IF ~IsSome(a) /\ ~IsSome(b) THEN 0
    ELSE IF ~IsSome(a) THEN -1
    ELSE IF ~IsSome(b) THEN 1
    ELSE StrCmp(Unwrap(a), Unwrap(b))

StartsWith(s, p) == Len(p) <= Len(s) /\ SubSeq(s, 1, Len(p)) = p

EndsWith(s, p) == Len(p) <= Len(s) /\ SubSeq(s, Len(s) - Len(p) + 1, Len(s)) = p

Contains(s, p) == \E i \in 1..(Len(s) - Len(p) + 1) : SubSeq(s, i, i + Len(p) - 1) = p

\* str::replace(p, ""): every non-overlapping occurrence of p, left to right
RECURSIVE Remove(_, _)
Remove(s, p) ==
    IF Len(s) = 0 THEN <<>>
    ELSE IF StartsWith(s, p) THEN Remove(SubSeq(s, Len(p) + 1, Len(s)), p)
    ELSE <<Head(s)>> \o Remove(Tail(s), p)

SplitNone(s, c) == <<s>>

\* str::split(c).collect(): the pieces between the occurrences of character c
RECURSIVE SplitFrom(_, _, _)
SplitFrom(s, c, cur) ==
    IF Len(s) = 0 THEN <<cur>>
    ELSE IF Head(s) = c THEN <<cur>> \o SplitFrom(Tail(s), c, <<>>)
    ELSE SplitFrom(Tail(s), c, Append(cur, Head(s)))

Split(s, c) == SplitFrom(s, c, <<>>)

---------------------------------------------------------------------------
(* String literals of the source *)

s_meta_dot == <<"m", "e", "t", "a", ".">>

s_desc == <<"d", "e", "s", "c">>

s_asc == <<"a", "s", "c">>

s_slug == <<"s", "l", "u", "g">>

s_path == <<"p", "a", "t", "h">>

s_entry == <<"e", "n", "t", "r", "y">>

s_meta == <<"m", "e", "t", "a">>

s_time_to_read == <<"t", "i", "m", "e", "_", "t", "o", "_", "r", "e", "a", "d">>

s_date == <<"d", "a", "t", "e">>

s_year == <<"y", "e", "a", "r">>

s_month == <<"m", "o", "n", "t", "h">>

s_day == <<"d", "a", "y">>

s_layout == <<"l", "a", "y", "o", "u", "t">>

s_meta_date == s_meta_dot \o s_date

s_meta_date_year == s_meta_date \o <<"|">> \o s_year

s_post == <<"p", "o", "s", "t">>

\* get_config().dir
config_dir == <<"/", "w">>

---------------------------------------------------------------------------
(* ContentItem and parse_content_files *)

d2021 == <<"2", "0", "2", "1", "-", "0", "1", "-", "0", "1">>

d2022 == <<"2", "0", "2", "2", "-", "0", "1", "-", "0", "1">>

d2023 == <<"2", "0", "2", "3", "-", "0", "1", "-", "0", "1">>

d2023jun == <<"2", "0", "2", "3", "-", "0", "6", "-", "0", "1">>

NoMeta == [k \in {} |-> <<>>]

\* HashMap::get
MetaGet(meta, k) == IF k \in DOMAIN meta THEN Some(meta[k]) ELSE None

\* One element of parse_content_files' result, for the file dir/<name>.md
\* with the given metadata block
ContentItem(name, meta) ==
    LET file == config_dir \o <<"/", name, ".", "m", "d">>
    IN  [ path |-> file,
          slug |-> Remove(Remove(file, config_dir), <<".", "m", "d">>),
          meta |-> meta,
          entry |-> <<"x">>,
          time_to_read |-> 0 ]

\* The content files of the site the DSL inputs are drawn from
ItemPool ==
    { ContentItem("a", (s_date :> d2021) @@ (s_layout :> s_post)),
      ContentItem("b", (s_date :> d2022) @@ (s_layout :> s_post)),
      ContentItem("c", (s_date :> d2023) @@ (s_layout :> s_post)),
      ContentItem("d", (s_date :> d2023jun)),
      ContentItem("e", NoMeta) }

\* The lists of distinct files of length at most n
ItemLists(n) ==
    UNION { { s \in [1..k -> ItemPool] : \A i, j \in 1..k : i # j => s[i] # s[j] }
            : k \in 0..n }

---------------------------------------------------------------------------
(* utils.rs *)

Ok(v) == [ok |-> TRUE, val |-> v]

Panic == [ok |-> FALSE, val |-> <<>>]

get_field_by_name_echo(s, field) ==
    IF field = s_path THEN [ok |-> TRUE, val |-> s.path]
    ELSE IF field = s_slug THEN [ok |-> TRUE, val |-> s.slug]
    ELSE IF field = s_entry THEN [ok |-> TRUE, val |-> s.entry]
    ELSE IF field = s_meta THEN [ok |-> FALSE, val |-> <<>>]
    ELSE IF field = s_time_to_read THEN [ok |-> FALSE, val |-> <<>>]
    ELSE [ok |-> TRUE, val |-> field]

\* get_field_by_name::<_, String>: the struct is serialized to a map, the
\* field looked up and the value deserialized as a String; a number or a
\* map does not deserialize as a String
get_field_by_name(s, field) ==
    IF field = s_path THEN Ok(s.path)
    ELSE IF field = s_slug THEN Ok(s.slug)
    ELSE IF field = s_entry THEN Ok(s.entry)
    ELSE IF field = s_meta THEN Panic
    ELSE IF field = s_time_to_read THEN Panic
    ELSE Ok(<<>>)

\* get_field_by_name::<_, u64> (utils.rs): only time_to_read deserializes as
\* a u64; a String, a map or the "" of an unknown field does not
get_field_by_name_u64(s, field) ==
    IF field = s_time_to_read THEN Ok(s.time_to_read) ELSE Panic

\* get_field_by_name::<_, String> of main.rs: as in utils.rs, but an unknown
\* field panics with "no such field"
main_get_field_by_name(s, field) ==
    IF field = s_path THEN Ok(s.path)
    ELSE IF field = s_slug THEN Ok(s.slug)
    ELSE IF field = s_entry THEN Ok(s.entry)
    ELSE Panic

SortCompareAscOnly(a, b, by, order) ==
    IF Contains(by, s_meta_dot)
    THEN OptCmp(MetaGet(a.meta, Remove(by, s_meta_dot)), MetaGet(b.meta, Remove(by, s_meta_dot)))
    ELSE StrCmp(get_field_by_name(a, by).val, get_field_by_name(b, by).val)

\* The closure handed to sort_by: the Ordering of a against b
SortCompare(a, b, by, order) ==
    IF Contains(by, s_meta_dot)
    THEN LET meta_key == Remove(by, s_meta_dot)
             comp_a == MetaGet(a.meta, meta_key)
             comp_b == MetaGet(b.meta, meta_key)
         IN  IF order = s_desc THEN OptCmp(comp_b, comp_a) ELSE OptCmp(comp_a, comp_b)
    ELSE LET comp_a == get_field_by_name(a, by).val
             comp_b == get_field_by_name(b, by).val
         IN  IF order = s_desc THEN StrCmp(comp_b, comp_a) ELSE StrCmp(comp_a, comp_b)

RECURSIVE SortInsertUnstable(_, _, _, _)
SortInsertUnstable(s, x, by, order) ==
    IF Len(s) = 0 THEN <<x>>
    ELSE IF SortCompare(s[Len(s)], x, by, order) >= 0
         THEN Append(SortInsertUnstable(SubSeq(s, 1, Len(s) - 1), x, by, order), s[Len(s)])
         ELSE Append(s, x)

\* slice::sort_by is a stable sort: x goes after every element of the
\* sorted prefix s that does not compare Greater than it
RECURSIVE SortInsert(_, _, _, _)
SortInsert(s, x, by, order) ==
    IF Len(s) = 0 THEN <<x>>
    ELSE IF SortCompare(s[Len(s)], x, by, order) = 1
         THEN Append(SortInsert(SubSeq(s, 1, Len(s) - 1), x, by, order), s[Len(s)])
         ELSE Append(s, x)

RECURSIVE SortFrom(_, _, _, _)
SortFrom(done, rest, by, order) ==
    IF Len(rest) = 0 THEN done
    ELSE SortFrom(SortInsert(done, Head(rest), by, order), Tail(rest), by, order)

\* sort_content_items: the comparator runs only when there are two items
\* to compare, and panics when the field does not deserialize
sort_content_items(items, by, order) ==
    IF Len(items) >= 2 /\ ~Contains(by, s_meta_dot) /\ ~get_field_by_name(items[1], by).ok
    THEN Panic
    ELSE Ok(SortFrom(<<>>, items, by, order))

---------------------------------------------------------------------------
(* dsl.rs *)

TruncateOneMore(s, n) == SubSeq(s, 1, Min2(n + 1, Len(s)))

\* Vec::truncate
Truncate(s, n) == SubSeq(s, 1, Min2(n, Len(s)))

dsl_sort_order_limit(d, items) ==
    LET sorted == IF IsSome(d.sort_by)
                  THEN sort_content_items(items, UnwrapOr(d.sort_by, s_slug),
                                          UnwrapOr(d.order, s_desc))
                  ELSE Ok(items)
    IN  IF ~sorted.ok THEN Panic
        ELSE IF IsSome(d.limit) THEN Ok(Truncate(sorted.val, Unwrap(d.limit)))
        ELSE sorted

\* Vec index: panics when out of bounds
Index(v, i) == IF i <= Len(v) THEN Ok(v[i]) ELSE Panic

dsl_group_by_grouper(item, by) ==
    IF Contains(by, s_meta_dot)
    THEN LET whole_key == Remove(by, s_meta_dot)
             meta_key_split == Split(whole_key, "|")
             meta_key == IF Contains(by, <<"|">>) THEN Index(meta_key_split, 1)
                         ELSE Ok(whole_key)
             meta_modifier == IF Contains(by, <<"|">>) THEN Index(meta_key_split, 2)
                              ELSE Ok(<<>>)
         IN  IF ~meta_key.ok \/ ~meta_modifier.ok THEN Panic
             ELSE LET value == UnwrapOr(MetaGet(item.meta, meta_key.val), <<>>)
                      date_parts == Split(value, "-")
                  IN  IF meta_key.val = s_date /\ meta_modifier.val = s_year
                      THEN Index(date_parts, 1)
                      ELSE IF meta_key.val = s_date /\ meta_modifier.val = s_month
                      THEN Index(date_parts, 2)
                      ELSE IF meta_key.val = s_date /\ meta_modifier.val = s_day
                      THEN Index(date_parts, 3)
                      ELSE Ok(value)
    ELSE get_field_by_name(item, by)

(* IndexMap<String, Vec<ContentItem>>: the entries in their order *)

MapKeys(m) == [i \in 1..Len(m) |-> m[i].k]

MapHas(m, key) == \E i \in 1..Len(m) : m[i].k = key

MapIndex(m, key) == CHOOSE i \in 1..Len(m) : m[i].k = key

\* IndexMap::get(..).unwrap_or(&Vec::new())
MapGetOrEmpty(m, key) == IF MapHas(m, key) THEN m[MapIndex(m, key)].v ELSE <<>>

\* IndexMap::insert: a new key goes last, an existing key keeps its place
MapInsert(m, key, val) ==
    IF MapHas(m, key)
    THEN [m EXCEPT ![MapIndex(m, key)] = [k |-> key, v |-> val]]
    ELSE Append(m, [k |-> key, v |-> val])

\* IndexMap::remove is swap_remove: the last entry takes the removed one's place
MapRemove(m, key) ==
    IF ~MapHas(m, key) THEN m
    ELSE LET i == MapIndex(m, key)
             n == Len(m)
         IN  IF i = n THEN SubSeq(m, 1, n - 1)
             ELSE [SubSeq(m, 1, n - 1) EXCEPT ![i] = m[n]]

GroupStepPrepend(grouped_content, item, grouper) ==
    LET grouped_content_items == <<item>> \o MapGetOrEmpty(grouped_content, grouper)
    IN  IF ~MapHas(grouped_content, grouper)
        THEN MapInsert(grouped_content, grouper, grouped_content_items)
        ELSE MapInsert(MapRemove(grouped_content, grouper), grouper, grouped_content_items)

\* One iteration of the loop of dsl_group
GroupStep(grouped_content, item, grouper) ==
    LET grouped_content_items == Append(MapGetOrEmpty(grouped_content, grouper), item)
    IN  IF ~MapHas(grouped_content, grouper)
        THEN MapInsert(grouped_content, grouper, grouped_content_items)
        ELSE MapInsert(MapRemove(grouped_content, grouper), grouper, grouped_content_items)

RECURSIVE GroupLoop(_, _, _)
GroupLoop(grouped_content, items, by) ==
    IF Len(items) = 0 THEN Ok(grouped_content)
    ELSE LET grouper == dsl_group_by_grouper(Head(items), by)
         IN  IF ~grouper.ok THEN Panic
             ELSE GroupLoop(GroupStep(grouped_content, Head(items), grouper.val),
                            Tail(items), by)

\* Vec<String>::sort of the keys (they are distinct)
RECURSIVE KeyInsert(_, _)
KeyInsert(s, x) ==
    IF Len(s) = 0 THEN <<x>>
    ELSE IF StrCmp(s[Len(s)], x) = 1
         THEN Append(KeyInsert(SubSeq(s, 1, Len(s) - 1), x), s[Len(s)])
         ELSE Append(s, x)

RECURSIVE KeySort(_, _)
KeySort(done, rest) ==
    IF Len(rest) = 0 THEN done ELSE KeySort(KeyInsert(done, Head(rest)), Tail(rest))

Reverse(s) == [i \in 1..Len(s) |-> s[Len(s) + 1 - i]]

dsl_group_order_limit(groups, order, limit) ==
    LET sorted == KeySort(<<>>, MapKeys(groups))
        ordered == IF order = s_desc THEN Reverse(sorted) ELSE sorted
        keys == IF IsSome(limit) THEN Truncate(ordered, Unwrap(limit)) ELSE ordered
    IN  [i \in 1..Len(keys) |-> [k |-> keys[i], v |-> MapGetOrEmpty(groups, keys[i])]]

dsl_group_without_return(items, by, order, limit) ==
    LET grouped_content == GroupLoop(<<>>, items, by)
    IN  IF ~grouped_content.ok THEN Panic
        ELSE IF IsSome(order)
        THEN Ok(dsl_group_order_limit(grouped_content.val, Unwrap(order), limit))
        ELSE grouped_content

dsl_group(items, by, order, limit) ==
    IF Len(by) = 0 THEN Ok(<<>>)
    ELSE LET grouped_content == GroupLoop(<<>>, items, by)
         IN  IF ~grouped_content.ok THEN Panic
             ELSE IF IsSome(order)
             THEN Ok(dsl_group_order_limit(grouped_content.val, Unwrap(order), limit))
             ELSE grouped_content

---------------------------------------------------------------------------
(* compose_content_from_dsl for one local directory entry of content.json *)

OptLimits(n) == {None} \cup {Some(i) : i \in 0..n}

OptOrders == {None, Some(s_asc), Some(s_desc)}

SortBys == {Some(s_meta_date), Some(s_slug)}

GroupBys == {Some(s_meta_date_year), Some(s_meta_date), Some(<<>>)}

DslEntries ==
    { [from |-> <<>>, sort_by |-> sb, order |-> o, limit |-> l,
       group_by |-> gb, group_by_order |-> go, group_by_limit |-> gl] :
        sb \in SortBys \cup {None}, o \in OptOrders, l \in OptLimits(MaxLimit),
        gb \in GroupBys \cup {None}, go \in OptOrders, gl \in OptLimits(MaxGroupLimit) }

\* Entries that differ only in a field that no path through the pipeline
\* reads are the same: order without sort_by, and group_by_order and
\* group_by_limit without group_by or with an empty group_by
DslEntriesRead ==
    { d \in DslEntries :
        /\ ~IsSome(d.sort_by) => ~IsSome(d.order)
        /\ (~IsSome(d.group_by) \/ d.group_by = Some(<<>>))
             => ~IsSome(d.group_by_order) /\ ~IsSome(d.group_by_limit) }

\* The entry whose from is the content file x (the other fields are not read)
SingleEntry(x) ==
    [from |-> Remove(x.path, config_dir \o <<"/">>), sort_by |-> None, order |-> None,
     limit |-> None, group_by |-> None, group_by_order |-> None, group_by_limit |-> None]

\* single_item: path_str ends with .md or .markdown
single_item(d) ==
    LET path_str == config_dir \o <<"/">> \o d.from
    IN  EndsWith(path_str, <<".", "m", "d">>)
        \/ EndsWith(path_str, <<".", "m", "a", "r", "k", "d", "o", "w", "n">>)

NoContent == [kind |-> "none", items |-> <<>>, groups |-> <<>>]

\* No single call is made
FnIdle ==
    /\ fn_call = [fn |-> "none", items |-> <<>>, by |-> <<>>, order |-> <<>>, R |-> "String", text |-> <<>>]
    /\ fn_ret = None

\* compile_content_items is not being called
ItemIdle ==
    /\ item_list = <<>>
    /\ no_layout = {}
    /\ THREADS = 0
    /\ chunk_workers = <<>>
    /\ cpc = "idle"
    /\ halted = FALSE

\* No reaction is running
WaveIdle ==
    /\ files = [content |-> 0, template |-> 0, assets |-> 0]
    /\ react = <<>>
    /\ opi = 1
    /\ spc = "idle"
    /\ threads = [content |-> 0, template |-> 0]
    /\ workers = [content |-> <<>>, template |-> <<>>]
    /\ returned = [content |-> FALSE, template |-> FALSE]
    /\ deleted = 0
    /\ copied = 0
    /\ exited = FALSE

\* No function has been called yet: every #[cached] store is empty
EmptyCache ==
    [ get_site_info |-> None, parse_content_files |-> None,
      compose_content_from_dsl |-> None, dsl_compose_content_from_dsl |-> None,
      compose_global_template_data |-> None ]

\* The memoized derivations are not modelled
CacheIdle ==
    /\ clock = 0
    /\ fs = [site |-> 0, manifest |-> 0, file |-> 0]
    /\ cache = EmptyCache
    /\ last_call = None
    /\ rendered = None

\* No entry is being composed while the watcher is modelled
DslIdle ==
    /\ readable = TRUE
    /\ dsl = [from |-> <<>>, sort_by |-> None, order |-> None, limit |-> None,
              group_by |-> None, group_by_order |-> None, group_by_limit |-> None]
    /\ input = <<>>
    /\ parsed_content_files = <<>>
    /\ flat = <<>>
    /\ content = NoContent
    /\ dpc = "idle"

\* The watcher is not running while an entry is composed
WatchIdle ==
    /\ now = 0
    /\ call_times = <<>>
    /\ events = <<>>
    /\ reactions = <<>>

InitDsl ==
    /\ WatchIdle
    /\ CacheIdle
    /\ WaveIdle
    /\ FnIdle
    /\ ItemIdle
    /\ \/ /\ dsl \in DslEntriesRead
          /\ input \in ItemLists(MaxItems)
          /\ readable = TRUE
          /\ parsed_content_files = input
          /\ dpc = "parsed"
       \/ /\ \E x \in ItemPool : dsl = SingleEntry(x) /\ input = <<x>>
          /\ readable \in BOOLEAN
          /\ parsed_content_files = <<>>
          /\ dpc = "listed"
    /\ flat = <<>>
    /\ content = NoContent

\* parse_content_files(content_files) for the one file of a single entry:
\* File::open(..).expect(..) panics when the file cannot be opened
ParseSingle ==
    /\ dpc = "listed"
    /\ IF readable
       THEN parsed_content_files' = input /\ dpc' = "parsed"
       ELSE dpc' = "panicked" /\ UNCHANGED parsed_content_files
    /\ UNCHANGED <<dsl, input, readable, flat, content>>
    /\ UNCHANGED <<watchVars, cacheVars, waveVars, fnVars, itemVars>>

\* content.insert(name, Single(first)); continue
StoreSingle ==
    /\ dpc = "parsed"
    /\ single_item(dsl) /\ Len(parsed_content_files) > 0
    /\ content' = [kind |-> "Single", items |-> <<parsed_content_files[1]>>, groups |-> <<>>]
    /\ dpc' = "stored"
    /\ UNCHANGED <<dsl, input, readable, parsed_content_files, flat>>
    /\ UNCHANGED <<watchVars, cacheVars, waveVars, fnVars, itemVars>>

\* dsl_sort_order_limit(item, &mut parsed_content_files)
SortOrderLimit ==
    /\ dpc = "parsed"
    /\ ~(single_item(dsl) /\ Len(parsed_content_files) > 0)
    /\ LET r == dsl_sort_order_limit(dsl, parsed_content_files)
       IN  IF r.ok
           THEN /\ parsed_content_files' = r.val
                /\ flat' = r.val
                /\ dpc' = "limited"
           ELSE /\ dpc' = "panicked"
                /\ UNCHANGED <<parsed_content_files, flat>>
    /\ UNCHANGED <<dsl, input, readable, content>>
    /\ UNCHANGED <<watchVars, cacheVars, waveVars, fnVars, itemVars>>

\* content.insert(name, Grouped(dsl_group(..)))
StoreGrouped ==
    /\ dpc = "limited"
    /\ IsSome(dsl.group_by)
    /\ LET g == dsl_group(flat, Unwrap(dsl.group_by), dsl.group_by_order,
                          dsl.group_by_limit)
       IN  IF g.ok
           THEN /\ content' = [kind |-> "Grouped", items |-> <<>>, groups |-> g.val]
                /\ dpc' = "stored"
           ELSE /\ dpc' = "panicked"
                /\ UNCHANGED content
    /\ UNCHANGED <<dsl, input, readable, parsed_content_files, flat>>
    /\ UNCHANGED <<watchVars, cacheVars, waveVars, fnVars, itemVars>>

\* content.insert(name, Normal(..))
StoreNormal ==
    /\ dpc = "limited"
    /\ ~IsSome(dsl.group_by)
    /\ content' = [kind |-> "Normal", items |-> flat, groups |-> <<>>]
    /\ dpc' = "stored"
    /\ UNCHANGED <<dsl, input, readable, parsed_content_files, flat>>
    /\ UNCHANGED <<watchVars, cacheVars, waveVars, fnVars, itemVars>>

NextDsl == ParseSingle \/ StoreSingle \/ SortOrderLimit \/ StoreGrouped \/ StoreNormal

SpecDsl == InitDsl /\ [][NextDsl]_vars

---------------------------------------------------------------------------
(* The change classifier (main.rs) *)

s_hbs == <<".", "h", "b", "s">>

s_handlebars == <<".", "h", "a", "n", "d", "l", "e", "b", "a", "r", "s">>

s_md == <<".", "m", "d">>

s_markdown == <<".", "m", "a", "r", "k", "d", "o", "w", "n">>

s_layouts == <<"_", "l", "a", "y", "o", "u", "t", "s">>

s_partials == <<"_", "p", "a", "r", "t", "i", "a", "l", "s">>

s_public == <<"p", "u", "b", "l", "i", "c">>

s_node_modules == <<"n", "o", "d", "e", "_", "m", "o", "d", "u", "l", "e", "s">>

s_site_json == <<"s", "i", "t", "e", ".", "j", "s", "o", "n">>

s_content_json == <<"c", "o", "n", "t", "e", "n", "t", ".", "j", "s", "o", "n">>

s_slash_site_json == <<"/", "s", "i", "t", "e", ".", "j", "s", "o", "n">>

s_slash_content_json == <<"/", "c", "o", "n", "t", "e", "n", "t", ".", "j", "s", "o", "n">>

s_slash_dot == <<"/", ".">>

is_handlebars_file(path) == EndsWith(path, s_hbs) \/ EndsWith(path, s_handlebars)

is_handlebars_page_file(path) ==
    /\ ~Contains(path, s_layouts)
    /\ ~Contains(path, s_partials)
    /\ ~Contains(path, s_public)
    /\ ~Contains(path, s_node_modules)
    /\ (EndsWith(path, s_hbs) \/ EndsWith(path, s_handlebars))

is_markdown_file(path) ==
    /\ ~Contains(path, s_layouts)
    /\ ~Contains(path, s_partials)
    /\ ~Contains(path, s_public)
    /\ ~Contains(path, s_node_modules)
    /\ (EndsWith(path, s_md) \/ EndsWith(path, s_markdown))

is_data_file(path) ==
    LET relative_path == Remove(path, config_dir)
    IN  relative_path = s_slash_site_json \/ relative_path = s_slash_content_json

is_asset_file(path) ==
    LET relative_path == Remove(path, config_dir)
    IN  /\ ~EndsWith(path, s_hbs)
        /\ ~EndsWith(path, s_handlebars)
        /\ ~EndsWith(path, s_md)
        /\ ~EndsWith(path, s_markdown)
        /\ ~EndsWith(path, s_site_json)
        /\ ~EndsWith(path, s_content_json)
        /\ ~Contains(path, s_layouts)
        /\ ~Contains(path, s_partials)
        /\ ~Contains(path, s_node_modules)
        /\ ~Contains(path, s_public)
        /\ ~StartsWith(relative_path, s_slash_dot)

(* Paths the watcher reports *)

\* /w/site.json: the site metadata file
p_site_json == <<"/", "w", "/", "s", "i", "t", "e", ".", "j", "s", "o", "n">>

\* /w/_layouts/post.hbs: a layout template
p_layout == <<"/", "w", "/", "_", "l", "a", "y", "o", "u", "t", "s", "/", "p", "o", "s", "t", ".", "h", "b", "s">>

\* /w/about.hbs: a page template
p_page == <<"/", "w", "/", "a", "b", "o", "u", "t", ".", "h", "b", "s">>

\* /w/a.md: a content file
p_content == <<"/", "w", "/", "a", ".", "m", "d">>

\* /w/x.css: an asset
p_asset == <<"/", "w", "/", "x", ".", "c", "s", "s">>

WatchPaths == {p_site_json, p_layout, p_page, p_content, p_asset}

---------------------------------------------------------------------------
(* The reactions (main.rs: compile, potentially_compile) *)

\* compile(): the calls it makes, in order
CompileOps ==
    << "empty_public_dir", "compose_global_template_data", "compile_content_items",
       "compile_template_items", "copy_assets" >>

\* The body of potentially_compile: the four tests are made one after the
\* other and every matching branch runs
ReactionOps(path) ==
    (IF is_data_file(path) \/ is_handlebars_file(path) THEN CompileOps ELSE <<>>)
    \o (IF is_asset_file(path) THEN <<"delete_assets", "copy_assets">> ELSE <<>>)
    \o (IF is_markdown_file(path)
        THEN <<"compose_global_template_data", "compile_content_items",
               "compile_template_items">>
        ELSE <<>>)
    \o (IF is_handlebars_page_file(path)
        THEN <<"compose_global_template_data", "compile_template_items">>
        ELSE <<>>)

---------------------------------------------------------------------------
(* The watcher: every event calls potentially_compile, which is wrapped by *)
(* #[throttle(1, Duration::from_secs(1))]                                  *)

\* #[throttle(1, ..)]: at most this many calls per period
ThrottleTimes == 1

\* Duration::from_secs(1)
ThrottleSecs == 1

ThrottlePeriod == ThrottleSecs * TicksPerSecond

RecentCallsNeverExpire(calls, t) == calls

\* The admitted calls that are not older than the period
RecentCalls(calls, t) == SelectSeq(calls, LAMBDA c : t - c < ThrottlePeriod)

AdmittedAlways(calls, t) == TRUE

\* The throttle admits a call when fewer than ThrottleTimes admitted calls
\* are left in the period
Admitted(calls, t) == Len(RecentCalls(calls, t)) < ThrottleTimes

InitWatch ==
    /\ now = 0
    /\ call_times = <<>>
    /\ events = <<>>
    /\ reactions = <<>>
    /\ DslIdle
    /\ CacheIdle
    /\ WaveIdle
    /\ FnIdle
    /\ ItemIdle

\* Time passes
Tick ==
    /\ now < MaxTime
    /\ now' = now + 1
    /\ UNCHANGED <<call_times, events, reactions>>
    /\ UNCHANGED <<dslVars, cacheVars, waveVars, fnVars, itemVars>>

\* Hotwatch delivers Write / Create / Rename / Remove for `path`: the handler
\* calls the throttled potentially_compile(path), whose body runs to its end
\* when the call is admitted and not at all (the call returns None) otherwise
Event(path) ==
    /\ Len(events) < MaxEvents
    /\ events' = Append(events, [at |-> now, path |-> path])
    /\ IF Admitted(call_times, now)
       THEN /\ call_times' = Append(RecentCalls(call_times, now), now)
            /\ reactions' = Append(reactions,
                                   [at |-> now, path |-> path, call |-> Len(events) + 1,
                                    ops |-> ReactionOps(path)])
       ELSE /\ call_times' = RecentCalls(call_times, now)
            /\ UNCHANGED reactions
    /\ UNCHANGED now
    /\ UNCHANGED <<dslVars, cacheVars, waveVars, fnVars, itemVars>>

NextWatch == Tick \/ \E path \in WatchPaths : Event(path)

SpecWatch == InitWatch /\ [][NextWatch]_vars

---------------------------------------------------------------------------
(* The memoized derivations.  #[cached] keeps the value of the first call  *)
(* for the life of the process; #[cached(time = 2)] keeps it until it is   *)
(* two seconds old.  A file's contents are modelled by its version.        *)

\* #[cached(time = 2)] on compose_content_from_dsl in dsl.rs
CacheSeconds == 2

\* #[cached]: no lifespan
Unbound == None

\* A stored entry answers the call: it exists and, in a timed store, is
\* younger than the lifespan
Hit(entry, lifespan, t) ==
    IsSome(entry) /\ (IsSome(lifespan) => t - Unwrap(entry).at < Unwrap(lifespan))

Return(v, c, r) == [val |-> v, cache |-> c, reads |-> r]

Stored(v, t) == Some([val |-> v, at |-> t])

\* get_site_info: #[cached]; the body reads site.json
get_site_info(c, t, f) ==
    IF Hit(c.get_site_info, Unbound, t)
    THEN Return(Unwrap(c.get_site_info).val, c, FALSE)
    ELSE Return(f.site, [c EXCEPT !.get_site_info = Stored(f.site, t)], TRUE)

\* parse_content_files: #[cached], keyed by the list of paths (find_files
\* is #[cached] too, so the list is the same at every call); the body
\* reads every file
parse_content_files(c, t, f) ==
    IF Hit(c.parse_content_files, Unbound, t)
    THEN Return(Unwrap(c.parse_content_files).val, c, FALSE)
    ELSE Return(f.file, [c EXCEPT !.parse_content_files = Stored(f.file, t)], TRUE)

\* The body of compose_content_from_dsl: reads content.json, then parses
\* the content files of every entry
ComposeBody(c, t, f) ==
    LET parsed == parse_content_files(c, t, f)
    IN  Return([manifest |-> f.manifest, items |-> parsed.val], parsed.cache, TRUE)

\* compose_content_from_dsl of main.rs: #[cached]
compose_content_from_dsl(c, t, f) ==
    IF Hit(c.compose_content_from_dsl, Unbound, t)
    THEN Return(Unwrap(c.compose_content_from_dsl).val, c, FALSE)
    ELSE LET body == ComposeBody(c, t, f)
         IN  Return(body.val,
                    [body.cache EXCEPT !.compose_content_from_dsl = Stored(body.val, t)],
                    TRUE)

\* compose_content_from_dsl of dsl.rs: #[cached(time = 2)]
dsl_compose_content_from_dsl(c, t, f) ==
    IF Hit(c.dsl_compose_content_from_dsl, Some(CacheSeconds), t)
    THEN Return(Unwrap(c.dsl_compose_content_from_dsl).val, c, FALSE)
    ELSE LET body == ComposeBody(c, t, f)
         IN  Return(body.val,
                    [body.cache EXCEPT !.dsl_compose_content_from_dsl = Stored(body.val, t)],
                    TRUE)

\* compose_global_template_data: #[cached]
compose_global_template_data(c, t, f) ==
    IF Hit(c.compose_global_template_data, Unbound, t)
    THEN Return(Unwrap(c.compose_global_template_data).val, c, FALSE)
    ELSE LET site == get_site_info(c, t, f)
             composed == compose_content_from_dsl(site.cache, t, f)
             data == [site |-> site.val, content |-> composed.val]
         IN  Return(data,
                    [composed.cache EXCEPT !.compose_global_template_data = Stored(data, t)],
                    TRUE)

InitCache ==
    /\ clock = 0
    /\ fs = [site |-> 0, manifest |-> 0, file |-> 0]
    /\ cache = EmptyCache
    /\ last_call = None
    /\ rendered = None
    /\ DslIdle
    /\ WatchIdle
    /\ WaveIdle
    /\ FnIdle
    /\ ItemIdle

CacheTick ==
    /\ clock < MaxClock
    /\ clock' = clock + 1
    /\ UNCHANGED <<fs, cache, last_call, rendered>>
    /\ UNCHANGED <<dslVars, watchVars, waveVars, fnVars, itemVars>>

\* The user saves site.json, content.json or a content file
Edit(file) ==
    /\ fs.site + fs.manifest + fs.file < MaxEdits
    /\ fs' = [fs EXCEPT ![file] = @ + 1]
    /\ UNCHANGED <<clock, cache, last_call, rendered>>
    /\ UNCHANGED <<dslVars, watchVars, waveVars, fnVars, itemVars>>

\* compile(), and the content-file reaction: the global data, then the
\* content wave over parse_content_files(find_files(..)), then the template
\* wave.  `from` is the state of the files when the reaction starts.
ReactAll(kind) ==
    /\ LET global_data == compose_global_template_data(cache, clock, fs)
           content_items == parse_content_files(global_data.cache, clock, fs)
       IN  /\ cache' = content_items.cache
           /\ rendered' = Some([ kind |-> kind, from |-> fs,
                                 site |-> global_data.val.site,
                                 manifest |-> global_data.val.content.manifest,
                                 set_items |-> global_data.val.content.items,
                                 items |-> content_items.val ])
    /\ UNCHANGED <<clock, fs, last_call>>
    /\ UNCHANGED <<dslVars, watchVars, waveVars, fnVars, itemVars>>

\* The page-template reaction: the global data, then the template wave
ReactPage ==
    /\ LET global_data == compose_global_template_data(cache, clock, fs)
       IN  /\ cache' = global_data.cache
           /\ rendered' = Some([ kind |-> "page", from |-> fs,
                                 site |-> global_data.val.site,
                                 manifest |-> global_data.val.content.manifest,
                                 set_items |-> global_data.val.content.items,
                                 items |-> global_data.val.content.items ])
    /\ UNCHANGED <<clock, fs, last_call>>
    /\ UNCHANGED <<dslVars, watchVars, waveVars, fnVars, itemVars>>

\* What a call finds in the store: the age of the entry, if there is one
AgeOf(entry, t) == IF IsSome(entry) THEN Some(t - Unwrap(entry).at) ELSE None

Called(name, before, r) ==
    /\ cache' = r.cache
    /\ last_call' = Some([ fn |-> name, at |-> clock, from |-> fs,
                           age |-> AgeOf(before, clock),
                           previous |-> IF IsSome(before) THEN Some(Unwrap(before).val)
                                        ELSE None,
                           val |-> r.val, reads |-> r.reads,
                           stored |-> Unwrap(r.cache[name]) ])
    /\ UNCHANGED <<clock, fs, rendered>>
    /\ UNCHANGED <<dslVars, watchVars, waveVars, fnVars, itemVars>>

\* A direct call of get_site_info()
CallSiteInfo ==
    Called("get_site_info", cache.get_site_info, get_site_info(cache, clock, fs))

\* A direct call of main.rs's compose_content_from_dsl()
CallCompose ==
    Called("compose_content_from_dsl", cache.compose_content_from_dsl,
           compose_content_from_dsl(cache, clock, fs))

\* A direct call of dsl.rs's compose_content_from_dsl()
CallDslCompose ==
    Called("dsl_compose_content_from_dsl", cache.dsl_compose_content_from_dsl,
           dsl_compose_content_from_dsl(cache, clock, fs))

NextCache ==
    \/ CacheTick
    \/ \E file \in {"site", "manifest", "file"} : Edit(file)
    \/ \E kind \in {"compile", "content"} : ReactAll(kind)
    \/ ReactPage
    \/ CallSiteInfo
    \/ CallCompose
    \/ CallDslCompose

SpecCache == InitCache /\ [][NextCache]_vars

---------------------------------------------------------------------------
(* The rebuild waves.  The thread that runs a reaction (main for the first *)
(* compile(), the watcher's thread afterwards) makes the calls of          *)
(* ReactionOps one after the other; compile_content_items and              *)
(* compile_template_items spawn one thread per chunk and spin on a static  *)
(* counter.  One step of a worker is one item of its chunk.                *)

\* chunks(500)
ChunkSize == 500

NumChunks(n) == (n + ChunkSize - 1) \div ChunkSize

\* The length of the i-th chunk of a list of n items
ChunkLen(n, i) == Min2(ChunkSize, n - (i - 1) * ChunkSize)

FileCounts == (0..FewFiles) \cup {ChunkSize + FewFiles}

WaveOf(op) == IF op = "compile_content_items" THEN "content" ELSE "template"

IsWaveOp(op) == op \in {"compile_content_items", "compile_template_items"}

Waves == {"content", "template"}

\* The call the reaction's thread is making
CurrentOp == react[opi]

Running == ~exited /\ opi <= Len(react)

\* THREADS.fetch_add(1, Ordering::SeqCst)
FetchAddForgotten(n) == n

FetchAdd(n) == n + 1

\* THREADS.fetch_sub(1, Ordering::SeqCst)
FetchSub(n) == n - 1

\* while THREADS.load(Ordering::SeqCst) != 0 { sleep }: the loop is left
WaitIsOverAtOnce(n) == TRUE

WaitIsOver(n) == n = 0

InitWave ==
    /\ files \in [content : FileCounts, template : FileCounts, assets : 0..MaxAssets]
    /\ react = CompileOps
    /\ opi = 1
    /\ spc = "call"
    /\ threads = [content |-> 0, template |-> 0]
    /\ workers = [content |-> <<>>, template |-> <<>>]
    /\ returned = [content |-> FALSE, template |-> FALSE]
    /\ deleted = 0
    /\ copied = 0
    /\ exited = FALSE
    /\ DslIdle
    /\ WatchIdle
    /\ CacheIdle
    /\ FnIdle
    /\ ItemIdle

NotWave == UNCHANGED <<dslVars, watchVars, cacheVars, fnVars, itemVars>>

\* The call returns: the thread goes on to the next call of the reaction
Advance ==
    /\ opi' = opi + 1
    /\ spc' = "call"

\* The watcher's thread is idle and an admitted event starts a reaction
StartReaction(path) ==
    /\ ~exited
    /\ opi > Len(react)
    /\ Len(ReactionOps(path)) > 0
    /\ react' = ReactionOps(path)
    /\ opi' = 1
    /\ spc' = "call"
    /\ returned' = [content |-> FALSE, template |-> FALSE]
    /\ deleted' = 0
    /\ copied' = 0
    /\ UNCHANGED <<files, threads, workers, exited>>
    /\ NotWave

\* empty_public_dir starts to remove the entries of /public
EmptyBegin ==
    /\ Running /\ spc = "call" /\ CurrentOp = "empty_public_dir"
    /\ spc' = "emptying"
    /\ UNCHANGED <<files, react, opi, threads, workers, returned, deleted, copied, exited>>
    /\ NotWave

\* every entry is removed and empty_public_dir returns
EmptyEnd ==
    /\ Running /\ spc = "emptying"
    /\ Advance
    /\ UNCHANGED <<files, react, threads, workers, returned, deleted, copied, exited>>
    /\ NotWave

\* an entry cannot be removed: err_out
EmptyFail ==
    /\ Running /\ spc = "emptying"
    /\ exited' = TRUE
    /\ UNCHANGED <<files, react, opi, spc, threads, workers, returned, deleted, copied>>
    /\ NotWave

\* compose_global_template_data()
ComposeGlobal ==
    /\ Running /\ spc = "call" /\ CurrentOp = "compose_global_template_data"
    /\ Advance
    /\ UNCHANGED <<files, react, threads, workers, returned, deleted, copied, exited>>
    /\ NotWave

\* compile_content_items / compile_template_items is entered: the list is
\* found and chunked
WaveBegin(w) ==
    /\ Running /\ spc = "call" /\ IsWaveOp(CurrentOp) /\ WaveOf(CurrentOp) = w
    /\ workers' = [workers EXCEPT ![w] = <<>>]
    /\ returned' = [returned EXCEPT ![w] = FALSE]
    /\ spc' = "spawning"
    /\ UNCHANGED <<files, react, opi, threads, deleted, copied, exited>>
    /\ NotWave

\* One iteration of `for chunk in chunks`: fetch_add, then thread::spawn
Spawn(w) ==
    /\ Running /\ spc = "spawning" /\ WaveOf(CurrentOp) = w
    /\ Len(workers[w]) < NumChunks(files[w])
    /\ threads' = [threads EXCEPT ![w] = FetchAdd(@)]
    /\ workers' = [workers EXCEPT ![w] =
                      Append(@, [len |-> ChunkLen(files[w], Len(@) + 1), done |-> 0,
                                 status |-> "running"])]
    /\ UNCHANGED <<files, react, opi, spc, returned, deleted, copied, exited>>
    /\ NotWave

\* Every chunk has its thread: the spin loop is reached and, once the
\* counter reads 0, left; the wave function returns
WaveReturn(w) ==
    /\ Running /\ spc = "spawning" /\ WaveOf(CurrentOp) = w
    /\ Len(workers[w]) = NumChunks(files[w])
    /\ WaitIsOver(threads[w])
    /\ returned' = [returned EXCEPT ![w] = TRUE]
    /\ Advance
    /\ UNCHANGED <<files, react, threads, workers, deleted, copied, exited>>
    /\ NotWave

WorkerRuns(w, i) ==
    /\ ~exited
    /\ i \in 1..Len(workers[w])
    /\ workers[w][i].status = "running"

\* The worker's next item: build_html, then write_to_path
WorkerBuild(w, i) ==
    /\ WorkerRuns(w, i) /\ workers[w][i].done < workers[w][i].len
    /\ workers' = [workers EXCEPT ![w][i].done = @ + 1]
    /\ UNCHANGED <<files, react, opi, spc, threads, returned, deleted, copied, exited>>
    /\ NotWave

\* The worker's next content item has no layout: continue
WorkerSkip(i) ==
    /\ WorkerRuns("content", i) /\ workers.content[i].done < workers.content[i].len
    /\ workers' = [workers EXCEPT !.content[i].done = @ + 1]
    /\ UNCHANGED <<files, react, opi, spc, threads, returned, deleted, copied, exited>>
    /\ NotWave

\* build_html fails to register or render: err_out exits the process
WorkerRenderError(w, i) ==
    /\ WorkerRuns(w, i) /\ workers[w][i].done < workers[w][i].len
    /\ exited' = TRUE
    /\ UNCHANGED <<files, react, opi, spc, threads, workers, returned, deleted, copied>>
    /\ NotWave

\* write_to_path fails (create_dir_all, File::create or write_all): the
\* unwrap panics and the worker's thread ends there
WorkerWritePanic(w, i) ==
    /\ WorkerRuns(w, i) /\ workers[w][i].done < workers[w][i].len
    /\ workers' = [workers EXCEPT ![w][i].status = "panicked"]
    /\ UNCHANGED <<files, react, opi, spc, threads, returned, deleted, copied, exited>>
    /\ NotWave

\* The chunk is done: fetch_sub, and the thread ends
WorkerFinish(w, i) ==
    /\ WorkerRuns(w, i) /\ workers[w][i].done = workers[w][i].len
    /\ threads' = [threads EXCEPT ![w] = FetchSub(@)]
    /\ workers' = [workers EXCEPT ![w][i].status = "done"]
    /\ UNCHANGED <<files, react, opi, spc, returned, deleted, copied, exited>>
    /\ NotWave

\* delete_assets is entered
DeleteBegin ==
    /\ Running /\ spc = "call" /\ CurrentOp = "delete_assets"
    /\ deleted' = 0
    /\ spc' = "deleting"
    /\ UNCHANGED <<files, react, opi, threads, workers, returned, copied, exited>>
    /\ NotWave

\* delete_assets removes the next asset from /public (a failure is printed)
DeleteStep ==
    /\ Running /\ spc = "deleting" /\ deleted < files.assets
    /\ deleted' = deleted + 1
    /\ UNCHANGED <<files, react, opi, spc, threads, workers, returned, copied, exited>>
    /\ NotWave

DeleteEnd ==
    /\ Running /\ spc = "deleting" /\ deleted = files.assets
    /\ Advance
    /\ UNCHANGED <<files, react, threads, workers, returned, deleted, copied, exited>>
    /\ NotWave

\* copy_assets is entered
CopyBegin ==
    /\ Running /\ spc = "call" /\ CurrentOp = "copy_assets"
    /\ copied' = 0
    /\ spc' = "copying"
    /\ UNCHANGED <<files, react, opi, threads, workers, returned, deleted, exited>>
    /\ NotWave

\* copy_assets copies the next asset into /public
CopyStep ==
    /\ Running /\ spc = "copying" /\ copied < files.assets
    /\ copied' = copied + 1
    /\ UNCHANGED <<files, react, opi, spc, threads, workers, returned, deleted, exited>>
    /\ NotWave

\* fs::copy fails: err_out
CopyFail ==
    /\ Running /\ spc = "copying" /\ copied < files.assets
    /\ exited' = TRUE
    /\ UNCHANGED <<files, react, opi, spc, threads, workers, returned, deleted, copied>>
    /\ NotWave

CopyEnd ==
    /\ Running /\ spc = "copying" /\ copied = files.assets
    /\ Advance
    /\ UNCHANGED <<files, react, threads, workers, returned, deleted, copied, exited>>
    /\ NotWave

WorkerIds == 1..NumChunks(ChunkSize + FewFiles)

NextWave ==
    \/ \E path \in WatchPaths : StartReaction(path)
    \/ EmptyBegin
    \/ EmptyEnd
    \/ EmptyFail
    \/ ComposeGlobal
    \/ \E w \in Waves : WaveBegin(w)
    \/ \E w \in Waves : Spawn(w)
    \/ \E w \in Waves : WaveReturn(w)
    \/ \E w \in Waves, i \in WorkerIds : WorkerBuild(w, i)
    \/ \E i \in WorkerIds : WorkerSkip(i)
    \/ \E w \in Waves, i \in WorkerIds : WorkerRenderError(w, i)
    \/ \E w \in Waves, i \in WorkerIds : WorkerWritePanic(w, i)
    \/ \E w \in Waves, i \in WorkerIds : WorkerFinish(w, i)
    \/ DeleteBegin
    \/ DeleteStep
    \/ DeleteEnd
    \/ CopyBegin
    \/ CopyStep
    \/ CopyFail
    \/ CopyEnd

SpecWave == InitWave /\ [][NextWave]_vars

---------------------------------------------------------------------------
(* Single calls of the functions of utils.rs, of dsl_group_by_grouper and *)
(* of the change classifier: the arguments are chosen, then the function  *)
(* is applied to them.                                                    *)

s_nope == <<"n", "o", "p", "e">>

s_week == <<"w", "e", "e", "k">>

s_meta_layout == s_meta_dot \o s_layout

\* The records of the calls: the content files of ItemPool, a file whose
\* date is the empty string and a second file without a date
FnPool ==
    ItemPool \cup { ContentItem("f", (s_date :> <<>>)),
                    ContentItem("g", (s_layout :> s_post)) }

FnLists(n) ==
    UNION { { s \in [1..k -> FnPool] : \A i, j \in 1..k : i # j => s[i] # s[j] }
            : k \in 0..n }

\* The fields of ContentItem, and a name that is none of them
FieldNames == {s_path, s_slug, s_meta, s_entry, s_time_to_read}

\* by: meta paths, fields, and a name that is neither
SortPaths == {s_meta_date, s_slug, s_entry, s_time_to_read, s_nope}

GroupPaths ==
    { s_meta_date_year, s_meta_date \o <<"|">> \o s_month, s_meta_date \o <<"|">> \o s_day,
      s_meta_date \o <<"|">> \o s_week, s_meta_date \o <<"|">>, s_meta_date, s_meta_layout,
      s_meta_layout \o <<"|">> \o s_year, s_slug, s_nope }

\* str::trim, for the whitespace that occurs (spaces)
RECURSIVE Trim(_)
Trim(s) ==
    IF Len(s) = 0 THEN s
    ELSE IF Head(s) = " " THEN Trim(Tail(s))
    ELSE IF s[Len(s)] = " " THEN Trim(SubSeq(s, 1, Len(s) - 1))
    ELSE s

\* Regex (?s)^(---)(.*?)(---|\.\.\.) find: the text must start with ---, and
\* the match ends with the first --- or ... that follows it
RegexFindMeta(contents) ==
    LET ends == { k \in 4..(Len(contents) - 2) :
                    SubSeq(contents, k, k + 2) \in {<<"-", "-", "-">>, <<".", ".", ".">>} }
    IN  IF StartsWith(contents, <<"-", "-", "-">>) /\ ends # {}
        THEN Some(SubSeq(contents, 1, (CHOOSE k \in ends : \A j \in ends : k <= j) + 2))
        ELSE None

\* The loop over meta_block.lines(): a line other than --- is split at ':'
\* and its parts 0 and 1 are trimmed and inserted
RECURSIVE MetaLines(_, _)
MetaLines(meta, meta_lines) ==
    IF Len(meta_lines) = 0 THEN Ok(meta)
    ELSE IF Head(meta_lines) = <<"-", "-", "-">> THEN MetaLines(meta, Tail(meta_lines))
    ELSE LET split_line == Split(Head(meta_lines), ":")
             key == Index(split_line, 1)
             val == Index(split_line, 2)
         IN  IF ~key.ok \/ ~val.ok THEN Panic
             ELSE MetaLines((Trim(key.val) :> Trim(val.val)) @@ meta, Tail(meta_lines))

\* The match never ends in a line break, so lines() is the split at "\n"
parse_content_file_meta(contents) ==
    IF RegexFindMeta(contents) = None THEN Ok(NoMeta)
    ELSE MetaLines(NoMeta, Split(Unwrap(RegexFindMeta(contents)), "\n"))

\* File contents: no metadata block; the block title: A, layout: post; the
\* same closed by ...; a block with padded key and value; a block with a
\* line without a colon; a block with a blank line
FileContents ==
    { <<"B", "o", "d", "y">>,
      <<"-", "-", "-", "\n", "t", "i", "t", "l", "e", ":", " ", "A", "\n",
        "l", "a", "y", "o", "u", "t", ":", " ", "p", "o", "s", "t", "\n",
        "-", "-", "-", "\n", "B", "o", "d", "y">>,
      <<"-", "-", "-", "\n", "t", "i", "t", "l", "e", ":", " ", "A", "\n",
        ".", ".", ".", "\n", "B", "o", "d", "y">>,
      <<"-", "-", "-", "\n", " ", "t", "i", "t", "l", "e", " ", ":", " ", " ", "A", " ", "\n",
        "-", "-", "-", "\n">>,
      <<"-", "-", "-", "\n", "t", "i", "t", "l", "e", "\n", "-", "-", "-", "\n", "B">>,
      <<"-", "-", "-", "\n", "\n", "t", "i", "t", "l", "e", ":", " ", "A", "\n",
        "-", "-", "-", "\n", "B">> }

\* The paths that are classified: those the watcher reports and
\* /w/_layouts/x.css (a file of the layouts directory that is no template),
\* /w/b/site.json (a site.json that is not at the content root),
\* /w/public/x.css (a file of the output directory), /w/.x (a hidden file)
ClassifiedPaths ==
    WatchPaths \cup
    { config_dir \o <<"/">> \o s_layouts \o <<"/", "x", ".", "c", "s", "s">>,
      config_dir \o <<"/", "b">> \o s_slash_site_json,
      config_dir \o <<"/">> \o s_public \o <<"/", "x", ".", "c", "s", "s">>,
      config_dir \o s_slash_dot \o <<"x">> }

\* What potentially_compile and find_files ask about a path
Classify(path) ==
    [ handlebars |-> is_handlebars_file(path),
      page |-> is_handlebars_page_file(path),
      markdown |-> is_markdown_file(path),
      data |-> is_data_file(path),
      asset |-> is_asset_file(path) ]

FnCalls ==
    { [fn |-> "parse_content_file_meta", items |-> <<>>, by |-> <<>>, order |-> <<>>,
       R |-> "String", text |-> contents] : contents \in FileContents }
    \cup
    { [fn |-> "classify", items |-> <<>>, by |-> <<>>, order |-> <<>>, R |-> "String",
       text |-> path] : path \in ClassifiedPaths }
    \cup
    { [fn |-> "sort_content_items", items |-> l, by |-> b, order |-> o, R |-> "String", text |-> <<>>] :
        l \in FnLists(MaxSortItems), b \in SortPaths, o \in {s_asc, s_desc} }
    \cup
    { [fn |-> "dsl_group_by_grouper", items |-> <<x>>, by |-> b, order |-> <<>>, R |-> "String", text |-> <<>>] :
        x \in FnPool, b \in GroupPaths }
    \cup
    { [fn |-> f, items |-> <<x>>, by |-> b, order |-> <<>>, R |-> r, text |-> <<>>] :
        f \in {"get_field_by_name", "main_get_field_by_name"},
        x \in FnPool, b \in FieldNames \cup {s_nope}, r \in {"String", "u64"} }

InitFn ==
    /\ fn_call \in {c \in FnCalls : c.fn = "main_get_field_by_name" => c.R = "String"}
    /\ fn_ret = None
    /\ DslIdle
    /\ WatchIdle
    /\ CacheIdle
    /\ WaveIdle
    /\ ItemIdle

NotFn == UNCHANGED <<dslVars, watchVars, cacheVars, waveVars, itemVars>>

CallSort ==
    /\ fn_ret = None
    /\ fn_call.fn = "sort_content_items"
    /\ fn_ret' = Some(sort_content_items(fn_call.items, fn_call.by, fn_call.order))
    /\ UNCHANGED fn_call
    /\ NotFn

CallGrouper ==
    /\ fn_ret = None
    /\ fn_call.fn = "dsl_group_by_grouper"
    /\ fn_ret' = Some(dsl_group_by_grouper(fn_call.items[1], fn_call.by))
    /\ UNCHANGED fn_call
    /\ NotFn

CallGetField ==
    /\ fn_ret = None
    /\ fn_call.fn = "get_field_by_name"
    /\ fn_ret' = Some(IF fn_call.R = "u64"
                      THEN get_field_by_name_u64(fn_call.items[1], fn_call.by)
                      ELSE get_field_by_name(fn_call.items[1], fn_call.by))
    /\ UNCHANGED fn_call
    /\ NotFn

CallClassify ==
    /\ fn_ret = None
    /\ fn_call.fn = "classify"
    /\ fn_ret' = Some(Ok(Classify(fn_call.text)))
    /\ UNCHANGED fn_call
    /\ NotFn

CallParseMeta ==
    /\ fn_ret = None
    /\ fn_call.fn = "parse_content_file_meta"
    /\ fn_ret' = Some(parse_content_file_meta(fn_call.text))
    /\ UNCHANGED fn_call
    /\ NotFn

CallMainGetField ==
    /\ fn_ret = None
    /\ fn_call.fn = "main_get_field_by_name"
    /\ fn_ret' = Some(main_get_field_by_name(fn_call.items[1], fn_call.by))
    /\ UNCHANGED fn_call
    /\ NotFn

NextFn == CallSort \/ CallGrouper \/ CallGetField \/ CallMainGetField \/ CallClassify
          \/ CallParseMeta

SpecFn == InitFn /\ [][NextFn]_vars

---------------------------------------------------------------------------
(* One call of compile_content_items, item by item                        *)
---------------------------------------------------------------------------

\* slice::chunks_exact: the remainder of the list is left out
chunks_exact(v) ==
    [i \in 1..(Len(v) \div ChunkSize) |->
        SubSeq(v, (i - 1) * ChunkSize + 1, i * ChunkSize)]

\* content_items.chunks(500).map(|c| c.to_owned())
chunks(v) ==
    [i \in 1..NumChunks(Len(v)) |->
        SubSeq(v, (i - 1) * ChunkSize + 1, (i - 1) * ChunkSize + ChunkLen(Len(v), i))]

\* The list parse_content_files returned, n items long
ContentList(n) == [k \in 1..n |-> k]

\* The items that may lack a layout: the first of each chunk
NoLayoutSets(n) == SUBSET ({1, ChunkSize + 1} \cap (1..n))

InitItems ==
    /\ \E n \in FileCounts :
          /\ item_list = ContentList(n)
          /\ no_layout \in NoLayoutSets(n)
    /\ THREADS = 0
    /\ chunk_workers = <<>>
    /\ cpc = "spawning"
    /\ halted = FALSE
    /\ DslIdle
    /\ WatchIdle
    /\ CacheIdle
    /\ WaveIdle
    /\ FnIdle

NotItems == UNCHANGED <<dslVars, watchVars, cacheVars, waveVars, fnVars>>

\* One iteration of `for chunk in chunks`: fetch_add, then thread::spawn
SpawnChunk ==
    /\ ~halted /\ cpc = "spawning"
    /\ Len(chunk_workers) < Len(chunks(item_list))
    /\ THREADS' = FetchAdd(THREADS)
    /\ chunk_workers' =
          Append(chunk_workers,
                 [x |-> chunks(item_list)[Len(chunk_workers) + 1], done |-> 0,
                  wrote |-> <<>>, status |-> "running"])
    /\ UNCHANGED <<item_list, no_layout, cpc, halted>>
    /\ NotItems

\* The thread i is inside `for content_item in x`, before its next item
AtItem(i) ==
    /\ ~halted
    /\ i \in 1..Len(chunk_workers)
    /\ chunk_workers[i].status = "running"
    /\ chunk_workers[i].done < Len(chunk_workers[i].x)

\* The item the thread i handles next
content_item(i) == chunk_workers[i].x[chunk_workers[i].done + 1]

\* content_item.meta.get("layout").is_none(): continue
SkipItem(i) ==
    /\ AtItem(i)
    /\ content_item(i) \in no_layout
    /\ chunk_workers' = [chunk_workers EXCEPT ![i].done = @ + 1]
    /\ UNCHANGED <<item_list, no_layout, THREADS, cpc, halted>>
    /\ NotItems

\* build_html, then write_to_path of the item's index.html
BuildItem(i) ==
    /\ AtItem(i)
    /\ content_item(i) \notin no_layout
    /\ chunk_workers' = [chunk_workers EXCEPT ![i].done = @ + 1,
                                              ![i].wrote = Append(@, content_item(i))]
    /\ UNCHANGED <<item_list, no_layout, THREADS, cpc, halted>>
    /\ NotItems

\* build_html fails to register or render: err_out exits the process
ItemRenderError(i) ==
    /\ AtItem(i)
    /\ content_item(i) \notin no_layout
    /\ halted' = TRUE
    /\ UNCHANGED <<item_list, no_layout, THREADS, chunk_workers, cpc>>
    /\ NotItems

\* write_to_path fails: the unwrap panics and the thread ends there
ItemWritePanic(i) ==
    /\ AtItem(i)
    /\ content_item(i) \notin no_layout
    /\ chunk_workers' = [chunk_workers EXCEPT ![i].status = "panicked"]
    /\ UNCHANGED <<item_list, no_layout, THREADS, cpc, halted>>
    /\ NotItems

\* The chunk is done: fetch_sub, and the thread ends
FinishChunk(i) ==
    /\ ~halted
    /\ i \in 1..Len(chunk_workers)
    /\ chunk_workers[i].status = "running"
    /\ chunk_workers[i].done = Len(chunk_workers[i].x)
    /\ THREADS' = FetchSub(THREADS)
    /\ chunk_workers' = [chunk_workers EXCEPT ![i].status = "done"]
    /\ UNCHANGED <<item_list, no_layout, cpc, halted>>
    /\ NotItems

\* Every chunk has its thread and the counter reads 0: the function returns
ReturnItems ==
    /\ ~halted /\ cpc = "spawning"
    /\ Len(chunk_workers) = Len(chunks(item_list))
    /\ WaitIsOver(THREADS)
    /\ cpc' = "returned"
    /\ UNCHANGED <<item_list, no_layout, THREADS, chunk_workers, halted>>
    /\ NotItems

ChunkIds == 1..NumChunks(ChunkSize + FewFiles)

NextItems ==
    \/ SpawnChunk
    \/ \E i \in ChunkIds : SkipItem(i)
    \/ \E i \in ChunkIds : BuildItem(i)
    \/ \E i \in ChunkIds : ItemRenderError(i)
    \/ \E i \in ChunkIds : ItemWritePanic(i)
    \/ \E i \in ChunkIds : FinishChunk(i)
    \/ ReturnItems

SpecItems == InitItems /\ [][NextItems]_vars

---------------------------------------------------------------------------
(* Properties of the DSL pipeline *)

\* The value a record is sorted by: the metadata value (absent or present)
\* for a meta path, the field otherwise
SortKey(item, by) ==
    IF Contains(by, s_meta_dot) THEN MetaGet(item.meta, Remove(by, s_meta_dot))
    ELSE Some(get_field_by_name(item, by).val)

PosIn(s, x) == CHOOSE i \in 1..Len(s) : s[i] = x

\* a stands before b in the list `from` fully sorted by `by` in direction
\* `order`: a smaller (asc) or greater (desc) sort value, the order of `from`
\* between equal sort values
SortedBefore(a, b, from, by, order) ==
    LET c == OptCmp(SortKey(a, by), SortKey(b, by))
    IN  \/ (IF order = s_desc THEN c = 1 ELSE c = -1)
        \/ c = 0 /\ PosIn(from, a) < PosIn(from, b)

Range(s) == {s[i] : i \in 1..Len(s)}

\* out is the first m records of `from` fully sorted
IsSortedPrefix(out, m, from, by, order) ==
    /\ Len(out) = m
    /\ Range(out) \subseteq Range(from)
    /\ \A i, j \in 1..Len(out) : i < j => SortedBefore(out[i], out[j], from, by, order)
    /\ \A x \in Range(from) \ Range(out) :
           \A i \in 1..Len(out) : SortedBefore(out[i], x, from, by, order)

DatesOf(items) == [i \in 1..Len(items) |-> UnwrapOr(MetaGet(items[i].meta, s_date), <<>>)]

\* The scenario of the manifest entry sort_by = meta.date, order = desc,
\* limit = 2 over three files dated 2021-01-01, 2022-01-01 and 2023-01-01
PostsScenario ==
    /\ dsl.sort_by = Some(s_meta_date)
    /\ dsl.order = Some(s_desc)
    /\ dsl.limit = Some(2)
    /\ Len(input) = 3
    /\ Range(DatesOf(input)) = {d2021, d2022, d2023}

\* C1: with sort_by set and limit = n, the flat result of
\* dsl_sort_order_limit is exactly the first min(n, len) records of the
\* fully sorted list, in sorted order (limit 0: empty; a limit beyond the
\* length: the whole list); the posts scenario yields [2023-01-01, 2022-01-01].
C1_SortedPrefix ==
    (dpc \in {"limited", "stored"} /\ IsSome(dsl.sort_by) /\ IsSome(dsl.limit)) =>
        /\ IsSortedPrefix(flat, Min2(Unwrap(dsl.limit), Len(input)), input,
                          Unwrap(dsl.sort_by), UnwrapOr(dsl.order, s_desc))
        /\ PostsScenario => DatesOf(flat) = <<d2023, d2022>>

C1_Witness ==
    /\ dpc = "limited"
    /\ PostsScenario
    /\ DatesOf(flat) = <<d2023, d2022>>

\* The distinct elements of s in the order of their first occurrence
RECURSIVE FirstOccurrences(_, _)
FirstOccurrences(seen, s) ==
    IF Len(s) = 0 THEN seen
    ELSE IF Head(s) \in Range(seen) THEN FirstOccurrences(seen, Tail(s))
    ELSE FirstOccurrences(Append(seen, Head(s)), Tail(s))

GroupersOf(items, by) == [i \in 1..Len(items) |-> dsl_group_by_grouper(items[i], by).val]

\* C10: without a group ordering step, the groups of dsl_group appear in
\* the order in which their keys were first encountered in the input list,
\* also when a key occurs more than once.
C10_FirstOccurrenceOrder ==
    (/\ dpc = "stored" /\ content.kind = "Grouped"
     /\ dsl.group_by # Some(<<>>) /\ ~IsSome(dsl.group_by_order)) =>
        MapKeys(content.groups) = FirstOccurrences(<<>>, GroupersOf(flat, Unwrap(dsl.group_by)))

\* The entry asks for groups and the composition has stored its result
GroupedStored ==
    /\ dpc = "stored"
    /\ IsSome(dsl.group_by)
    /\ dsl.group_by # Some(<<>>)

StrictlyDescending(keys) ==
    \A i, j \in 1..Len(keys) : i < j => StrCmp(keys[i], keys[j]) = 1

\* C11: with group_by present and group_by_order omitted, the group keys of
\* the result are ordered as for group_by_order = "desc": in descending
\* lexicographic order.
C11_DefaultDescending ==
    (GroupedStored /\ ~IsSome(dsl.group_by_order)) =>
        StrictlyDescending(MapKeys(content.groups))

\* C12: with group_by_limit = n, whether or not group_by_order is given,
\* the grouped result has exactly min(n, number of distinct keys) groups;
\* n = 0 gives no group.
C12_GroupLimit ==
    (GroupedStored /\ IsSome(dsl.group_by_limit)) =>
        Len(content.groups) =
            Min2(Unwrap(dsl.group_by_limit),
                 Cardinality(Range(GroupersOf(flat, Unwrap(dsl.group_by)))))

\* The places (group, index) of the grouped result that hold record x
PlacesOf(groups, x) ==
    {<<g, j>> \in (1..Len(groups)) \X (1..MaxItems + 1) :
        j <= Len(groups[g].v) /\ groups[g].v[j] = x}

\* C13: with no group_by_limit, grouping partitions the sort-limited list:
\* every record of that list is in exactly one group, the groups hold no
\* other record, and within every group the records stand in the same
\* relative order as in the sort-limited list, whether or not the groups
\* were ordered.
C13_GroupsPartition ==
    (GroupedStored /\ ~IsSome(dsl.group_by_limit)) =>
        /\ \A x \in Range(flat) : Cardinality(PlacesOf(content.groups, x)) = 1
        /\ \A g \in 1..Len(content.groups) :
             LET v == content.groups[g].v
             IN  /\ Range(v) \subseteq Range(flat)
                 /\ \A j, k \in 1..Len(v) :
                      j < k => PosIn(flat, v[j]) < PosIn(flat, v[k])

\* Three records in two groups, the groups ordered by group_by_order
C13_Witness ==
    /\ GroupedStored /\ ~IsSome(dsl.group_by_limit)
    /\ IsSome(dsl.group_by_order)
    /\ Len(flat) = 3
    /\ Len(content.groups) = 2
    /\ \E g \in 1..Len(content.groups) : Len(content.groups[g].v) = 2

C21_SingleOrNothing ==
    single_item(dsl) =>
        /\ dpc = "stored" => content = [kind |-> "Single", items |-> input, groups |-> <<>>]
        /\ dpc # "panicked"
        /\ ~readable => content = NoContent

---------------------------------------------------------------------------
(* Properties of the single calls *)

FnCalled(fn) == fn_call.fn = fn /\ IsSome(fn_ret)

\* The outcome of the call that was made
Outcome == Unwrap(fn_ret)

\* Record x has no value, or the empty string, under the metadata key of by
BlankUnder(x, by) == UnwrapOr(MetaGet(x.meta, Remove(by, s_meta_dot)), <<>>) = <<>>

\* The records at i < j of the input are in that order in the output
KeepsOrder(i, j) ==
    PosIn(Outcome.val, fn_call.items[i]) < PosIn(Outcome.val, fn_call.items[j])

\* C14: sorting by a meta.<key> path never fails, and a record without
\* <key> is ordered exactly as a record whose <key> is the empty string:
\* two such records compare equal and keep their relative order.
C14_MissingAsEmpty ==
    (FnCalled("sort_content_items") /\ Contains(fn_call.by, s_meta_dot)) =>
        /\ Outcome.ok
        /\ \A i, j \in 1..Len(fn_call.items) :
             (/\ i < j
              /\ BlankUnder(fn_call.items[i], fn_call.by)
              /\ BlankUnder(fn_call.items[j], fn_call.by)) => KeepsOrder(i, j)

\* C15: sort_content_items is stable for asc and for desc: two records
\* with equal sort values are in the output in the order of the input.
C15_Stable ==
    (FnCalled("sort_content_items") /\ Outcome.ok) =>
        \A i, j \in 1..Len(fn_call.items) :
            (/\ i < j
             /\ SortKey(fn_call.items[i], fn_call.by) = SortKey(fn_call.items[j], fn_call.by))
                => KeepsOrder(i, j)

\* A descending sort that moves a record and has two records without a date
C15_Witness ==
    /\ FnCalled("sort_content_items") /\ Outcome.ok
    /\ fn_call.order = s_desc
    /\ fn_call.by = s_meta_date
    /\ Outcome.val # fn_call.items
    /\ \E i, j \in 1..Len(fn_call.items) :
         /\ i < j
         /\ MetaGet(fn_call.items[i].meta, s_date) = None
         /\ MetaGet(fn_call.items[j].meta, s_date) = None

OtherOrder(order) == IF order = s_desc THEN s_asc ELSE s_desc

\* C16: for a non-empty list of records (their slugs are distinct), the
\* sort by slug in one direction is exactly the reverse of the sort of the
\* same input in the other direction.
C16_DescReversesAsc ==
    (FnCalled("sort_content_items") /\ fn_call.by = s_slug /\ Len(fn_call.items) > 0) =>
        /\ Outcome.ok
        /\ Outcome.val =
             Reverse(sort_content_items(fn_call.items, s_slug, OtherOrder(fn_call.order)).val)

\* Three records sorted by slug, descending, not given in that order
C16_Witness ==
    /\ FnCalled("sort_content_items") /\ fn_call.by = s_slug /\ fn_call.order = s_desc
    /\ Len(fn_call.items) = 3
    /\ Outcome.ok
    /\ Outcome.val # fn_call.items

\* v is a YYYY-MM-DD string
IsYmd(v) ==
    /\ Len(v) = 10
    /\ \A i \in 1..Len(v) : v[i] = "-" <=> i \in {5, 8}

DateOf(x) == UnwrapOr(MetaGet(x.meta, s_date), <<>>)

\* C17: for a record whose date is a YYYY-MM-DD string the group key of
\* meta.date|year is the first of its three parts, of meta.date|month the
\* second, of meta.date|day the third (2023-06-01: 2023, 06, 01); with
\* another modifier, with none, or with another metadata key, the group key
\* is the raw metadata value.
C17_DateParts ==
    (FnCalled("dsl_group_by_grouper") /\ IsYmd(DateOf(fn_call.items[1]))) =>
        LET x == fn_call.items[1]
            v == DateOf(x)
            by == fn_call.by
        IN  /\ by = s_meta_date_year => Outcome = Ok(SubSeq(v, 1, 4))
            /\ by = s_meta_date \o <<"|">> \o s_month => Outcome = Ok(SubSeq(v, 6, 7))
            /\ by = s_meta_date \o <<"|">> \o s_day => Outcome = Ok(SubSeq(v, 9, 10))
            /\ (v = d2023jun /\ by = s_meta_date_year) => Outcome.val = <<"2", "0", "2", "3">>
            /\ (v = d2023jun /\ by = s_meta_date \o <<"|">> \o s_month)
                 => Outcome.val = <<"0", "6">>
            /\ (v = d2023jun /\ by = s_meta_date \o <<"|">> \o s_day)
                 => Outcome.val = <<"0", "1">>
            /\ by \in {s_meta_date, s_meta_date \o <<"|">> \o s_week} => Outcome = Ok(v)
            /\ (by \in {s_meta_layout, s_meta_layout \o <<"|">> \o s_year}
                /\ IsSome(MetaGet(x.meta, s_layout)))
                 => Outcome = Ok(Unwrap(MetaGet(x.meta, s_layout)))

\* The month of the record dated 2023-06-01
C17_Witness ==
    /\ FnCalled("dsl_group_by_grouper")
    /\ DateOf(fn_call.items[1]) = d2023jun
    /\ fn_call.by = s_meta_date \o <<"|">> \o s_month
    /\ Outcome = Ok(<<"0", "6">>)

\* by is not meta-prefixed and names no field of ContentItem
UnknownField(by) == ~Contains(by, s_meta_dot) /\ by \notin FieldNames

\* C19: a sort_by or group_by path that is not meta-prefixed and names no
\* field of ContentItem is fatal: the field accessor fails instead of
\* yielding a value, and so does the sort (of two records or more) or the
\* grouper that resolves the path through it.
C19_UnknownFieldFatal ==
    (/\ IsSome(fn_ret)
     /\ fn_call.fn \in {"sort_content_items", "dsl_group_by_grouper", "get_field_by_name"}
     /\ fn_call.fn = "sort_content_items" => Len(fn_call.items) >= 2
     /\ UnknownField(fn_call.by)) => ~Outcome.ok

\* C20: get_field_by_name returns the stored value of each existing field
\* (path, slug and entry as strings, time_to_read as a number) and the empty
\* string for a field name the record does not have.
C20_FieldValues ==
    FnCalled("get_field_by_name") =>
        LET x == fn_call.items[1]
            field == fn_call.by
        IN  /\ (field = s_path /\ fn_call.R = "String") => Outcome = Ok(x.path)
            /\ (field = s_slug /\ fn_call.R = "String") => Outcome = Ok(x.slug)
            /\ (field = s_entry /\ fn_call.R = "String") => Outcome = Ok(x.entry)
            /\ (field = s_time_to_read /\ fn_call.R = "u64") => Outcome = Ok(x.time_to_read)
            /\ (field \notin FieldNames /\ fn_call.R = "String") => Outcome = Ok(<<>>)

\* The field that does not exist, asked for as a String
C20_Witness ==
    /\ FnCalled("get_field_by_name")
    /\ fn_call.by = s_nope /\ fn_call.R = "String"
    /\ Outcome = Ok(<<>>)

\* C25: dsl_group_by_grouper yields a group key, without failing, for every
\* record and every meta-prefixed by path: also for meta.date|month and
\* meta.date|day on a record without a date or whose date has fewer than
\* three parts, and for a path that ends in '|'.
C25_GrouperNeverFails ==
    (FnCalled("dsl_group_by_grouper") /\ Contains(fn_call.by, s_meta_dot)) => Outcome.ok

\* The path without the content root in front
RelativeTo(path, dir) ==
    IF StartsWith(path, dir) THEN SubSeq(path, Len(dir) + 1, Len(path)) ELSE path

\* The path is under public, node_modules or a dot-prefixed name of the root
Reserved(path) ==
    LET rel == RelativeTo(path, config_dir)
    IN  \/ StartsWith(rel, <<"/">> \o s_public)
        \/ StartsWith(rel, <<"/">> \o s_node_modules)
        \/ StartsWith(rel, s_slash_dot)

\* C22: every changed path that is not under a reserved or hidden prefix is
\* in at least one of the five categories, it is an asset exactly when it is
\* none of data file, layout/partial template, page template and content
\* file, and it is a data file exactly when its path relative to the content
\* root is /site.json or /content.json.
C22_Classification ==
    (FnCalled("classify") /\ ~Reserved(fn_call.text)) =>
        LET c == Outcome.val
            rel == RelativeTo(fn_call.text, config_dir)
        IN  /\ c.data \/ c.handlebars \/ c.page \/ c.markdown \/ c.asset
            /\ c.asset <=> ~(c.data \/ c.handlebars \/ c.page \/ c.markdown)
            /\ c.data <=> rel \in {s_slash_site_json, s_slash_content_json}

\* The text starts with a metadata block whose lines are all key: value
\* lines, closed by ---
WellFormedBlock(contents) ==
    /\ RegexFindMeta(contents) # None
    /\ LET meta_lines == Split(Unwrap(RegexFindMeta(contents)), "\n")
       IN  \A i \in 1..Len(meta_lines) :
              \/ meta_lines[i] = <<"-", "-", "-">>
              \/ Len(Split(meta_lines[i], ":")) = 2

\* C23: parse_content_file_meta never fails; content with no leading
\* metadata block, or with a block that is not made of key: value lines (a
\* line without a colon, a blank line, a ... closing marker), yields the
\* empty mapping, and the block title: A, layout: post yields exactly
\* {title: A, layout: post}, keys and values trimmed.
C23_MetaNeverFails ==
    FnCalled("parse_content_file_meta") =>
        /\ Outcome.ok
        /\ ~WellFormedBlock(fn_call.text) => Outcome.val = NoMeta
        /\ (Len(fn_call.text) > 0 /\ fn_call.text[Len(fn_call.text)] = "y"
            /\ WellFormedBlock(fn_call.text))
             => Outcome.val = (<<"t", "i", "t", "l", "e">> :> <<"A">>) @@ (s_layout :> s_post)

---------------------------------------------------------------------------
(* Properties of the watcher *)

\* A burst is a maximal run of calls that arrive within one period of its
\* first call; BurstStarts lists the index of the first call of every burst
RECURSIVE BurstStartsFrom(_, _, _)
BurstStartsFrom(evs, i, starts) ==
    IF i > Len(evs) THEN starts
    ELSE IF Len(starts) = 0 \/ evs[i].at - evs[starts[Len(starts)]].at >= ThrottlePeriod
         THEN BurstStartsFrom(evs, i + 1, Append(starts, i))
         ELSE BurstStartsFrom(evs, i + 1, starts)

BurstStarts == BurstStartsFrom(events, 1, <<>>)

\* The index of the first call of the burst call i belongs to
BurstOf(i) ==
    LET starts == BurstStartsFrom(SubSeq(events, 1, i), 1, <<>>)
    IN  starts[Len(starts)]

\* The calls of the burst that starts with call s
BurstCalls(s) == {j \in 1..Len(events) : BurstOf(j) = s}

MaxOf(S) == CHOOSE x \in S : \A y \in S : y <= x

\* No later call can still arrive within the period of the call made at t
WindowOver(t) == now - t >= ThrottlePeriod

InOps(op, ops) == \E i \in 1..Len(ops) : ops[i] = op

\* C6: a change to a page template (.hbs/.handlebars outside _layouts and
\* _partials) recomputes the global data and runs the page-template wave
\* only: the output directory is not cleared, no content item is recompiled
\* and the assets are not resynced.
C6_PageTemplateOnly ==
    \A k \in 1..Len(reactions) :
        is_handlebars_page_file(reactions[k].path) =>
            /\ InOps("compose_global_template_data", reactions[k].ops)
            /\ InOps("compile_template_items", reactions[k].ops)
            /\ ~InOps("empty_public_dir", reactions[k].ops)
            /\ ~InOps("compile_content_items", reactions[k].ops)
            /\ ~InOps("copy_assets", reactions[k].ops)

---------------------------------------------------------------------------
(* Properties of the memoized derivations *)

\* C4: every reaction that recomputes the global data renders with global
\* data and content items derived from the input files as they are when the
\* reaction starts: no output is built from a value memoized before a change
\* of site.json, content.json or a content file.
C4_RendersCurrentInputs ==
    IsSome(rendered) =>
        LET r == Unwrap(rendered)
        IN  /\ r.site = r.from.site
            /\ r.manifest = r.from.manifest
            /\ r.set_items = r.from.file
            /\ r.items = r.from.file

\* What the derivation yields when computed from the files f
FreshValue(fn, f) ==
    IF fn = "get_site_info" THEN f.site ELSE [manifest |-> f.manifest, items |-> f.file]

\* C5: for each memoized derivation, a call made within the cache's time
\* window of the stored value returns that value without reading the
\* filesystem, and the first call made after the window has expired
\* recomputes the value from the current inputs and replaces the stored one.
C5_TimeWindow ==
    IsSome(last_call) =>
        LET l == Unwrap(last_call)
        IN  /\ (IsSome(l.age) /\ Unwrap(l.age) < CacheSeconds) =>
                   (~l.reads /\ l.val = Unwrap(l.previous))
            /\ (IsSome(l.age) /\ Unwrap(l.age) >= CacheSeconds) =>
                   /\ l.reads
                   /\ l.val = FreshValue(l.fn, l.from)
                   /\ l.stored = [val |-> l.val, at |-> l.at]

---------------------------------------------------------------------------
(* Properties of the rebuild waves *)

WorkersOf(w) == {workers[w][i] : i \in 1..Len(workers[w])}

Finished(worker) == worker.status = "done" /\ worker.done = worker.len

NoWorkerRunning == \A w \in Waves : \A worker \in WorkersOf(w) : worker.status # "running"

\* C7: a wave function returns to its caller only after every worker it
\* spawned (one per chunk of its list) has gone through its whole chunk and
\* ended; so no worker of the page-template wave runs while a worker of the
\* content wave is still running.
C7_WaveJoinsWorkers ==
    /\ \A w \in Waves :
         returned[w] =>
           /\ Len(workers[w]) = NumChunks(files[w])
           /\ \A worker \in WorkersOf(w) : Finished(worker)
    /\ (\E worker \in WorkersOf("template") : worker.status = "running")
         => \A worker \in WorkersOf("content") : worker.status # "running"

\* A full recompilation of a site of more than one chunk of content files:
\* the content wave spawned two workers and returned, the template wave
\* returned after its worker
C7_Witness ==
    /\ react = CompileOps
    /\ returned.content /\ returned.template
    /\ Len(workers.content) > 1
    /\ Len(workers.template) > 0
    /\ ~exited

\* C8: a wave once started runs to completion, whatever happens to its
\* workers: once a wave function has been entered, its wait eventually ends;
\* the wave function returns or the process exits.
C8_WaveCompletes ==
    \A w \in Waves :
        (Running /\ spc = "spawning" /\ IsWaveOp(CurrentOp) /\ WaveOf(CurrentOp) = w)
            ~> (returned[w] \/ exited)

HasOp(op) == \E k \in 1..Len(react) : react[k] = op

\* The index of the call op in the running reaction
OpIndex(op) == CHOOSE k \in 1..Len(react) : react[k] = op

\* C9: a clear or delete of the output directory is never interleaved with
\* its population.  No worker runs while empty_public_dir, delete_assets or
\* copy_assets is at work; in compile() a worker runs only once
\* empty_public_dir has returned and copy_assets is entered only once both
\* waves have returned; and where delete_assets precedes copy_assets, every
\* asset has been handled by delete_assets before copy_assets is entered.
C9_ClearThenPopulate ==
    /\ spc \in {"emptying", "deleting", "copying"} => NoWorkerRunning
    /\ (HasOp("empty_public_dir") /\ ~NoWorkerRunning)
         => opi > OpIndex("empty_public_dir")
    /\ (react = CompileOps /\ spc = "copying")
         => returned.content /\ returned.template
    /\ (HasOp("delete_assets") /\ spc = "copying") => deleted = files.assets

\* compile() copies an asset after two content workers and a template
\* worker have written their pages
C9_Witness ==
    /\ react = CompileOps
    /\ spc = "copying" /\ copied > 0
    /\ Len(workers.content) > 1 /\ Len(workers.template) > 0
    /\ \A w \in Waves : \A worker \in WorkersOf(w) : Finished(worker)

SpecWaveLive == SpecWave /\ WF_vars(NextWave)

\* The items the threads of the call have written, over all threads
AllWrote == UNION {Range(chunk_workers[i].wrote) : i \in 1..Len(chunk_workers)}

RECURSIVE WroteCount(_)
WroteCount(i) == IF i = 0 THEN 0 ELSE Len(chunk_workers[i].wrote) + WroteCount(i - 1)

HasLayout(k) == k \notin no_layout

\* C24: the list is cut into consecutive chunks of ChunkSize items, one
\* thread per chunk; a thread has written, in list order, exactly the items
\* with a layout among those of its chunk it has passed, so that a skipped
\* item stops nothing; no item is written twice, by one thread or by two;
\* and when the call returns every item with a layout has been written
C24_EachItemOnce ==
    /\ \A i \in 1..Len(chunk_workers) :
          LET w == chunk_workers[i]
              first == (i - 1) * ChunkSize + 1
              last == Min2(i * ChunkSize, Len(item_list))
          IN  /\ first <= last
              /\ w.x = SubSeq(item_list, first, last)
              /\ w.wrote = SelectSeq(SubSeq(w.x, 1, w.done), HasLayout)
    /\ WroteCount(Len(chunk_workers)) = Cardinality(AllWrote)
    /\ cpc = "returned" =>
          /\ Len(chunk_workers) = NumChunks(Len(item_list))
          /\ AllWrote = {k \in Range(item_list) : HasLayout(k)}

\* The call returned after two threads, the first of which skipped its
\* first item and wrote the rest of its chunk
C24_Witness ==
    /\ cpc = "returned"
    /\ Len(chunk_workers) = 2
    /\ no_layout = {1}
    /\ chunk_workers[1].wrote = SubSeq(item_list, 2, ChunkSize)
    /\ Len(chunk_workers[2].wrote) > 0

============================================================================
